---------------------------- MODULE Spec2Model ----------------------------
(***************************************************************************)
(* A model of the tree CRDT of src/src/tree (Kleppmann's move operation):  *)
(* Clock, Tree, OpMove, LogOpMove and State with apply/do/undo/redo and    *)
(* log truncation, and of the replicas of test/tree.rs that apply ops in   *)
(* different orders.                                                       *)
(***************************************************************************)
EXTENDS Integers, Sequences, FiniteSets, TLC

(***************************************************************************)
(* Bounds of the model.                                                    *)
(***************************************************************************)
MaxNode == 2
MaxActor == 2
MaxCounter == 2
MaxOps == 3
MaxTruncs == 1

\* usize::MAX, scaled to the integers TLC has; any value above every log
\* length behaves as the 64-bit one does.
UsizeMax == 2147483647

\* u64::MAX, scaled likewise: the greatest value of a Clock's counter
U64Max == 2147483647

\* how many counters next to 0 and next to u64::MAX the clocks of the clock
\* specification start from
MaxEdge == 16

Nodes == 0 .. MaxNode
Actors == 1 .. MaxActor
Counters == 1 .. MaxCounter
Metas == {"x", "y"}
Replicas == {1, 2}

(***************************************************************************)
(* Option<T>: None and Some(v).                                            *)
(***************************************************************************)
None == << >>
Some(v) == << v >>
IsSome(o) == Len(o) = 1
Unwrap(o) == o[1]

(***************************************************************************)
(* HashMap<K, V> as a function with a finite domain.                       *)
(***************************************************************************)
EmptyMap == [k \in {} |-> k]
MapInsert(m, k, v) == [x \in (DOMAIN m) \cup {k} |-> IF x = k THEN v ELSE m[x]]
MapRemove(m, k) == [x \in (DOMAIN m) \ {k} |-> m[x]]
MapGet(m, k) == IF k \in DOMAIN m THEN Some(m[k]) ELSE None

(***************************************************************************)
(* Clock: clock.rs                                                         *)
(***************************************************************************)
Clock_new(actor_id, counter) == [actor_id |-> actor_id, counter |-> counter]

\* (mutant) equal counters: the smaller actor is the greater clock
cmp_tie_reversed(self, other) ==
    IF self.counter = other.counter
    THEN IF self.actor_id < other.actor_id THEN "Greater"
         ELSE IF self.actor_id > other.actor_id THEN "Less"
         ELSE "Equal"
    ELSE IF self.counter > other.counter THEN "Greater"
    ELSE "Less"

\* (mutant) clocks with equal counters are equal, whatever their actors
cmp_ignores_actor(self, other) ==
    IF self.counter = other.counter THEN "Equal"
    ELSE IF self.counter > other.counter THEN "Greater"
    ELSE "Less"

\* Ord::cmp
cmp(self, other) ==
    IF self.counter = other.counter
    THEN IF self.actor_id < other.actor_id THEN "Less"
         ELSE IF self.actor_id > other.actor_id THEN "Greater"
         ELSE "Equal"
    ELSE IF self.counter > other.counter THEN "Greater"
    ELSE "Less"

\* PartialEq::eq and the operators < and > that PartialOrd derives from cmp
ClockEq(a, b) == cmp(a, b) = "Equal"

\* (mutant) the actor does not break the tie of equal counters
ClockLt_counter_only(a, b) == a.counter < b.counter

ClockLt(a, b) == cmp(a, b) = "Less"
ClockGt(a, b) == cmp(a, b) = "Greater"

\* Clock::inc, Clock::merge and Clock::tick: ret is the clock returned and
\* self the receiver after the call (inc and merge take &self, tick takes
\* &mut self and adds 1 to its counter).
inc(self) ==
    [self |-> self, ret |-> Clock_new(self.actor_id, self.counter + 1)]

\* (mutant) the clock returned has the actor of the other clock
merge_other_actor(self, other) ==
    [self |-> self,
     ret |-> Clock_new(other.actor_id,
                       IF self.counter >= other.counter THEN self.counter
                       ELSE other.counter)]

\* (mutant) the clock returned has the counter of the other clock
merge_other_counter(self, other) ==
    [self |-> self, ret |-> Clock_new(self.actor_id, other.counter)]

merge(self, other) ==
    [self |-> self,
     ret |-> Clock_new(self.actor_id,
                       IF self.counter >= other.counter THEN self.counter
                       ELSE other.counter)]

tick(self) ==
    LET next == [self EXCEPT !.counter = @ + 1]
    IN  [self |-> next, ret |-> next]

\* a + b on u64: past u64::MAX it panics in a build with overflow checks
\* (debug) and wraps in a build without (release)
u64_add(a, b, overflow_checks) ==
    IF a <= U64Max - b THEN [panic |-> FALSE, v |-> a + b]
    ELSE IF overflow_checks THEN [panic |-> TRUE, v |-> 0]
    ELSE [panic |-> FALSE, v |-> a - (U64Max - b) - 1]

\* inc with the width of the counter: `self.counter + 1`
inc_u64(self, overflow_checks) ==
    LET sum == u64_add(self.counter, 1, overflow_checks)
    IN  [self |-> self, ret |-> Clock_new(self.actor_id, sum.v), panic |-> sum.panic]

\* tick with the width of the counter: `self.counter += 1`
tick_u64(self, overflow_checks) ==
    LET sum == u64_add(self.counter, 1, overflow_checks)
        next == [self EXCEPT !.counter = sum.v]
    IN  IF sum.panic THEN [self |-> self, ret |-> self, panic |-> TRUE]
        ELSE [self |-> next, ret |-> next, panic |-> FALSE]

(***************************************************************************)
(* TreeNode, OpMove, LogOpMove                                             *)
(***************************************************************************)
TreeNode_new(parent_id, metadata) == [parent_id |-> parent_id, metadata |-> metadata]

OpMove_new(timestamp, parent_id, metadata, child_id) ==
    [timestamp |-> timestamp, parent_id |-> parent_id,
     metadata |-> metadata, child_id |-> child_id]

\* (mutant) the LogOpMove forgets where the child was
LogOpMove_new_no_oldp(op, oldp) ==
    [timestamp |-> op.timestamp, parent_id |-> op.parent_id,
     metadata |-> op.metadata, child_id |-> op.child_id, oldp |-> None]

LogOpMove_new(op, oldp) ==
    [timestamp |-> op.timestamp, parent_id |-> op.parent_id,
     metadata |-> op.metadata, child_id |-> op.child_id, oldp |-> oldp]

from_log_op_move(l) ==
    [timestamp |-> l.timestamp, parent_id |-> l.parent_id,
     metadata |-> l.metadata, child_id |-> l.child_id]

(***************************************************************************)
(* Tree: tree.rs                                                           *)
(***************************************************************************)
Tree_new == [triples |-> EmptyMap, children |-> EmptyMap]

find(tree, child_id) == MapGet(tree.triples, child_id)

\* Tree::children: the keys of the parent's child map (a set: the order of a
\* HashMap's keys is unspecified)
children(tree, parent_id) ==
    IF parent_id \in DOMAIN tree.children THEN tree.children[parent_id] ELSE {}

\* (mutant) the child leaves the map and stays in its parent's child set
rm_child_keeps_index(tree, child_id) ==
    IF child_id \in DOMAIN tree.triples
    THEN [tree EXCEPT !.triples = MapRemove(@, child_id)]
    ELSE tree

\* (mutant) a child set that has become empty stays in the index
rm_child_no_cleanup(tree, child_id) ==
    IF child_id \in DOMAIN tree.triples
    THEN LET p == tree.triples[child_id].parent_id
             ch == IF p \in DOMAIN tree.children
                   THEN MapInsert(tree.children, p, tree.children[p] \ {child_id})
                   ELSE tree.children
         IN  [triples |-> MapRemove(tree.triples, child_id), children |-> ch]
    ELSE tree

rm_child(tree, child_id) ==
    IF child_id \in DOMAIN tree.triples
    THEN LET p == tree.triples[child_id].parent_id
             ch == IF p \in DOMAIN tree.children
                   THEN LET map == tree.children[p] \ {child_id}
                        IN  IF Cardinality(map) = 0
                            THEN MapRemove(tree.children, p)
                            ELSE MapInsert(tree.children, p, map)
                   ELSE tree.children
         IN  [triples |-> MapRemove(tree.triples, child_id), children |-> ch]
    ELSE tree

add_node(tree, child_id, tt) ==
    LET p == tt.parent_id
        ch == IF p \in DOMAIN tree.children
              THEN MapInsert(tree.children, p, tree.children[p] \cup {child_id})
              ELSE MapInsert(tree.children, p, {child_id})
    IN  [triples |-> MapInsert(tree.triples, child_id, tt), children |-> ch]

\* rm_subtree.  children() hands the loop a Vec of the parent's children in
\* the order the HashMap iterates, which is any order: rm_subtree is the set
\* of the trees the call can leave, one for each order.  rm_children is the
\* loop with the children still to visit.  On a tree where a node is among
\* its own descendants the recursion never ends.
RECURSIVE rm_subtree(_, _, _)
RECURSIVE rm_children(_, _)
rm_children(tree, todo) ==
    IF todo = {} THEN {tree}
    ELSE UNION { UNION { rm_children(rm_child(t1, c), todo \ {c}) :
                             t1 \in rm_subtree(tree, c, FALSE) } : c \in todo }

\* (mutant) the children are removed and their own subtrees are left
RECURSIVE rm_each(_, _)
rm_each(tree, todo) ==
    IF todo = {} THEN tree
    ELSE LET c == CHOOSE x \in todo : TRUE
         IN  rm_each(rm_child(tree, c), todo \ {c})

rm_subtree_no_descent(tree, parent_id, include_parent) ==
    LET after == rm_each(tree, children(tree, parent_id))
    IN  IF include_parent THEN {rm_child(after, parent_id)} ELSE {after}

rm_subtree(tree, parent_id, include_parent) ==
    LET after == rm_children(tree, children(tree, parent_id))
    IN  IF include_parent
        THEN { rm_child(t, parent_id) : t \in after }
        ELSE after

\* The loop of is_ancestor from target_id, with the nodes visited so far: it
\* answers "true" or "false", or "loops" when it comes back to a node it has
\* visited without having met ancestor_id (the loop then never ends).
RECURSIVE ancestor_walk(_, _, _, _)
ancestor_walk(tree, target_id, ancestor_id, seen) ==
    IF target_id \in DOMAIN tree.triples
    THEN LET n == tree.triples[target_id]
         IN  IF n.parent_id = ancestor_id THEN "true"
             ELSE IF n.parent_id \in seen \cup {target_id} THEN "loops"
             ELSE ancestor_walk(tree, n.parent_id, ancestor_id, seen \cup {target_id})
    ELSE "false"

\* (mutant) only the parent of the child is looked at
is_ancestor_parent_only(tree, child_id, ancestor_id) ==
    IF child_id \in DOMAIN tree.triples
       /\ tree.triples[child_id].parent_id = ancestor_id
    THEN "true" ELSE "false"

is_ancestor(tree, child_id, ancestor_id) ==
    ancestor_walk(tree, child_id, ancestor_id, {})

(***************************************************************************)
(* State: state.rs.  A State is the log and the tree; pos is the position  *)
(* of the call made on it: "ready" when the call has returned, "looping"   *)
(* when it is inside a loop that never ends, "panicked" when it panicked.  *)
(***************************************************************************)
State_new == [log_op_list |-> << >>, tree |-> Tree_new, pos |-> "ready"]

\* (mutant) the entry takes the place of the head of the log
add_log_entry_over_head(s, entry) ==
    [s EXCEPT !.log_op_list =
        IF Len(@) = 0 THEN << entry >> ELSE << entry >> \o Tail(@)]

add_log_entry(s, entry) == [s EXCEPT !.log_op_list = << entry >> \o @]

\* (mutant) only the self-move is refused, not the move under a descendant
do_op_no_ancestor_check(s, op) ==
    LET log == LogOpMove_new(op, find(s.tree, op.child_id))
    IN  IF op.child_id = op.parent_id THEN [state |-> s, log |-> log]
        ELSE LET t1 == rm_child(s.tree, op.child_id)
                 tt == TreeNode_new(op.parent_id, op.metadata)
             IN  [state |-> [s EXCEPT !.tree = add_node(t1, op.child_id, tt)],
                  log |-> log]

\* (mutant) the ancestor check asks whether the new parent is an ancestor of
\* the child, instead of the child an ancestor of the new parent
do_op_swapped_ancestor_args(s, op) ==
    LET log == LogOpMove_new(op, find(s.tree, op.child_id))
        anc == IF op.child_id = op.parent_id THEN "true"
               ELSE is_ancestor(s.tree, op.child_id, op.parent_id)
    IN  IF anc = "loops" THEN [state |-> [s EXCEPT !.pos = "looping"], log |-> log]
        ELSE IF anc = "true" THEN [state |-> s, log |-> log]
        ELSE LET t1 == rm_child(s.tree, op.child_id)
                 tt == TreeNode_new(op.parent_id, op.metadata)
             IN  [state |-> [s EXCEPT !.tree = add_node(t1, op.child_id, tt)],
                  log |-> log]

\* (mutant) only the move under a descendant is refused, not the self-move
do_op_no_self_check(s, op) ==
    LET log == LogOpMove_new(op, find(s.tree, op.child_id))
        anc == is_ancestor(s.tree, op.parent_id, op.child_id)
    IN  IF anc = "loops" THEN [state |-> [s EXCEPT !.pos = "looping"], log |-> log]
        ELSE IF anc = "true" THEN [state |-> s, log |-> log]
        ELSE LET t1 == rm_child(s.tree, op.child_id)
                 tt == TreeNode_new(op.parent_id, op.metadata)
             IN  [state |-> [s EXCEPT !.tree = add_node(t1, op.child_id, tt)],
                  log |-> log]

\* do_op: the State afterwards and the LogOpMove returned
do_op(s, op) ==
    LET oldp == find(s.tree, op.child_id)
        log == LogOpMove_new(op, oldp)
        anc == IF op.child_id = op.parent_id THEN "true"
               ELSE is_ancestor(s.tree, op.parent_id, op.child_id)
    IN  IF anc = "loops" THEN [state |-> [s EXCEPT !.pos = "looping"], log |-> log]
        ELSE IF anc = "true" THEN [state |-> s, log |-> log]
        ELSE LET t1 == rm_child(s.tree, op.child_id)
                 tt == TreeNode_new(op.parent_id, op.metadata)
             IN  [state |-> [s EXCEPT !.tree = add_node(t1, op.child_id, tt)],
                  log |-> log]

\* (mutant) the child is removed and its old parent is not put back
undo_op_no_restore(s, log) == [s EXCEPT !.tree = rm_child(@, log.child_id)]

undo_op(s, log) ==
    LET t1 == rm_child(s.tree, log.child_id)
    IN  IF IsSome(log.oldp)
        THEN LET oldp == Unwrap(log.oldp)
                 tn == TreeNode_new(oldp.parent_id, oldp.metadata)
             IN  [s EXCEPT !.tree = add_node(t1, log.child_id, tn)]
        ELSE [s EXCEPT !.tree = t1]

\* (mutant) the op is done again but the old LogOpMove goes back to the log
redo_op_stale_log(s, logop) ==
    LET r == do_op(s, from_log_op_move(logop))
    IN  IF r.state.pos = "ready" THEN add_log_entry(r.state, logop) ELSE r.state

redo_op(s, logop) ==
    LET op == from_log_op_move(logop)
        r == do_op(s, op)
    IN  IF r.state.pos = "ready" THEN add_log_entry(r.state, r.log) ELSE r.state

RECURSIVE apply_op(_, _)

\* (mutant) the entry undone for an older op is not done again
apply_op_no_redo(s, op1) ==
    IF Len(s.log_op_list) = 0
    THEN LET r == do_op(s, op1)
         IN  IF r.state.pos = "ready"
             THEN [r.state EXCEPT !.log_op_list = << r.log >>]
             ELSE r.state
    ELSE IF ClockEq(op1.timestamp, s.log_op_list[1].timestamp)
    THEN s
    ELSE IF ClockLt(op1.timestamp, s.log_op_list[1].timestamp)
    THEN LET logop == Head(s.log_op_list)
             s1 == [s EXCEPT !.log_op_list = Tail(@)]
             s2 == undo_op(s1, logop)
         IN  apply_op(s2, op1)
    ELSE LET r == do_op(s, op1)
         IN  IF r.state.pos = "ready" THEN add_log_entry(r.state, r.log) ELSE r.state

\* (mutant) an op with the timestamp of the log head panics
apply_op_dup_panics(s, op1) ==
    IF Len(s.log_op_list) = 0
    THEN LET r == do_op(s, op1)
         IN  IF r.state.pos = "ready"
             THEN [r.state EXCEPT !.log_op_list = << r.log >>]
             ELSE r.state
    ELSE IF ClockEq(op1.timestamp, s.log_op_list[1].timestamp)
    THEN [s EXCEPT !.pos = "panicked"]
    ELSE IF ClockLt(op1.timestamp, s.log_op_list[1].timestamp)
    THEN LET logop == Head(s.log_op_list)
             s1 == [s EXCEPT !.log_op_list = Tail(@)]
             s2 == undo_op(s1, logop)
             s3 == apply_op(s2, op1)
         IN  IF s3.pos = "ready" THEN redo_op(s3, logop) ELSE s3
    ELSE LET r == do_op(s, op1)
         IN  IF r.state.pos = "ready" THEN add_log_entry(r.state, r.log) ELSE r.state

apply_op(s, op1) ==
    IF Len(s.log_op_list) = 0
    THEN LET r == do_op(s, op1)
         IN  IF r.state.pos = "ready"
             THEN [r.state EXCEPT !.log_op_list = << r.log >>]
             ELSE r.state
    ELSE IF ClockEq(op1.timestamp, s.log_op_list[1].timestamp)
    THEN s
    ELSE IF ClockLt(op1.timestamp, s.log_op_list[1].timestamp)
    THEN LET logop == Head(s.log_op_list)
             s1 == [s EXCEPT !.log_op_list = Tail(@)]
             s2 == undo_op(s1, logop)
             s3 == apply_op(s2, op1)
         IN  IF s3.pos = "ready" THEN redo_op(s3, logop) ELSE s3
    ELSE LET r == do_op(s, op1)
         IN  IF r.state.pos = "ready" THEN add_log_entry(r.state, r.log) ELSE r.state

\* The calls apply_op(op1) makes on State s, in the order it makes them:
\* each is undo_op, do_op or redo_op with the timestamp of the entry or op
\* it is given.
RECURSIVE apply_op_calls(_, _)
apply_op_calls(s, op1) ==
    IF Len(s.log_op_list) = 0
    THEN << [call |-> "do_op", timestamp |-> op1.timestamp] >>
    ELSE IF ClockEq(op1.timestamp, s.log_op_list[1].timestamp)
    THEN << >>
    ELSE IF ClockLt(op1.timestamp, s.log_op_list[1].timestamp)
    THEN LET logop == Head(s.log_op_list)
             s1 == [s EXCEPT !.log_op_list = Tail(@)]
             s2 == undo_op(s1, logop)
             s3 == apply_op(s2, op1)
         IN  << [call |-> "undo_op", timestamp |-> logop.timestamp] >>
             \o apply_op_calls(s2, op1)
             \o (IF s3.pos = "ready"
                 THEN << [call |-> "redo_op", timestamp |-> logop.timestamp] >>
                 ELSE << >>)
    ELSE << [call |-> "do_op", timestamp |-> op1.timestamp] >>

\* usize subtraction a - b: below zero it panics in a build with overflow
\* checks (debug) and wraps in a build without (release)
usize_sub(a, b, overflow_checks) ==
    IF a >= b THEN [panic |-> FALSE, v |-> a - b]
    ELSE IF overflow_checks THEN [panic |-> TRUE, v |-> 0]
    ELSE [panic |-> FALSE, v |-> UsizeMax - (b - a) + 1]

\* The loop of State::check_log_is_descending from index i on, with the
\* bound len() - 1 as it was computed: indexing past the end of the list
\* panics, and so does a pair that is not in descending order.
RECURSIVE descending_from(_, _, _)
descending_from(log, i, bound) ==
    IF i < bound
    THEN IF i + 1 >= Len(log) THEN "panics"
         ELSE IF ~ClockGt(log[i + 1].timestamp, log[i + 2].timestamp) THEN "panics"
         ELSE descending_from(log, i + 1, bound)
    ELSE "returns"

\* State::check_log_is_descending: whether the call returns or panics
check_log_is_descending(s, overflow_checks) ==
    LET sub == usize_sub(Len(s.log_op_list), 1, overflow_checks)
    IN  IF sub.panic THEN "panics"
        ELSE descending_from(s.log_op_list, 0, sub.v)

\* The first loop of truncate_log_before, from the oldest entry (the last of
\* the list) towards the newest: the index of the newest entry of the run of
\* entries older than the timestamp that ends the list, or last_idx as it
\* was when the oldest entry is not older than the timestamp.
RECURSIVE scan_from_end(_, _, _, _)
scan_from_end(log, timestamp, i, last_idx) ==
    LET len == Len(log)
    IN  IF i >= len THEN last_idx
        ELSE IF ClockLt(log[len - i].timestamp, timestamp)
        THEN scan_from_end(log, timestamp, i + 1, len - 1 - i)
        ELSE last_idx

\* The second loop of truncate_log_before: it removes the last entry until
\* the index of the last entry is below last_idx.  Vec::remove panics on an
\* index that is not in the list.
RECURSIVE remove_from_end(_, _, _)
remove_from_end(log, last_idx, overflow_checks) ==
    LET sub == usize_sub(Len(log), 1, overflow_checks)
        idx == sub.v
    IN  IF sub.panic THEN [log |-> log, panic |-> TRUE]
        ELSE IF idx < last_idx THEN [log |-> log, panic |-> FALSE]
        ELSE IF idx >= Len(log) THEN [log |-> log, panic |-> TRUE]
        ELSE remove_from_end(SubSeq(log, 1, idx) \o SubSeq(log, idx + 2, Len(log)),
                             last_idx, overflow_checks)

\* (mutant) the entries older than the timestamp leave the log and the tree
\* is emptied
truncate_log_before_drops_tree(s, timestamp, overflow_checks) ==
    [state |-> [s EXCEPT !.log_op_list =
                             SelectSeq(@, LAMBDA e : ~ClockLt(e.timestamp, timestamp)),
                         !.tree = Tree_new],
     ret |-> FALSE]

\* truncate_log_before: the State afterwards and the value returned (ret has
\* no meaning when the call has panicked)
truncate_log_before(s, timestamp, overflow_checks) ==
    LET len == Len(s.log_op_list)
        first == usize_sub(len, 1, overflow_checks)
    IN  IF first.panic
        THEN [state |-> [s EXCEPT !.pos = "panicked"], ret |-> FALSE]
        ELSE LET last_idx == scan_from_end(s.log_op_list, timestamp, 0, first.v)
                 rem == remove_from_end(s.log_op_list, last_idx, overflow_checks)
             IN  IF rem.panic
                 THEN [state |-> [s EXCEPT !.log_op_list = rem.log, !.pos = "panicked"],
                       ret |-> FALSE]
                 ELSE [state |-> [s EXCEPT !.log_op_list = rem.log],
                       ret |-> last_idx + 1 < len]

\* (mutant) the ops of the sequence are applied last to first
RECURSIVE apply_ops_reversed(_, _)
apply_ops_reversed(s, ops) ==
    IF Len(ops) = 0 THEN s
    ELSE apply_ops_reversed(apply_op(s, ops[Len(ops)]), SubSeq(ops, 1, Len(ops) - 1))

\* apply_ops_into: the ops of a sequence, one after the other
RECURSIVE apply_ops(_, _)
apply_ops(s, ops) ==
    IF Len(ops) = 0 THEN s ELSE apply_ops(apply_op(s, Head(ops)), Tail(ops))

(***************************************************************************)
(* The replicas of test/tree.rs: States that apply the same ops, each in   *)
(* its own order.  base is the State every replica starts from, pool holds *)
(* the ops emitted since, applied[r] the ops of the pool replica r has     *)
(* applied, and ooo[r] tells whether an op has reached r with a timestamp  *)
(* older than the head of r's log (the undo/redo branch of apply_op).      *)
(* call describes the call of truncate_log_before that has just been made, *)
(* if the last call was one: its threshold, the log before it, the value   *)
(* returned and whether it panicked.  truncs counts the calls.  time[r]    *)
(* and latest[r] are the time and latest_time_by_replica of the Replica of *)
(* examples/tree.rs that owns state[r]; its id is r.  handed is the Vec   *)
(* of ops given to apply_ops so far, where a specification uses one.  clk  *)
(* is a Clock on its own (self) with the last method called on it (op),    *)
(* the clock before that call, the clock returned and whether the call     *)
(* returned or panicked (pos).                                             *)
(***************************************************************************)
VARIABLES base, pool, state, applied, ooo, call, truncs, time, latest, handed, clk

vars == << base, pool, state, applied, ooo, call, truncs, time, latest, handed,
          clk >>

Clocks == { Clock_new(a, c) : a \in Actors, c \in Counters }

Ops == { OpMove_new(t, p, m, c) : t \in Clocks, p \in Nodes, m \in Metas, c \in Nodes }

Timestamps(ops) == { op.timestamp : op \in ops }

\* no op of the set carries the timestamp of another
UniqueTimestamps(ops) ==
    \A o1 \in ops, o2 \in ops : ClockEq(o1.timestamp, o2.timestamp) => o1 = o2

OutOfOrder(s, op) ==
    /\ Len(s.log_op_list) > 0
    /\ ClockLt(op.timestamp, s.log_op_list[1].timestamp)

NoCall ==
    [made |-> FALSE, threshold |-> Clock_new(0, 0), before |-> << >>,
     ret |-> FALSE, panicked |-> FALSE]

\* no call of a Clock method has been made
NoClock ==
    [op |-> "none", before |-> Clock_new(0, 0), self |-> Clock_new(0, 0),
     ret |-> Clock_new(0, 0), pos |-> "ready"]

\* Replica::new for every replica
NewReplicas ==
    /\ time = [r \in Replicas |-> Clock_new(r, 0)]
    /\ latest = [r \in Replicas |-> EmptyMap]

Init ==
    /\ NewReplicas
    /\ call = NoCall
    /\ truncs = 0
    /\ handed = << >>
    /\ clk = NoClock
    /\ base = State_new
    /\ pool = {}
    /\ state = [r \in Replicas |-> State_new]
    /\ applied = [r \in Replicas |-> {}]
    /\ ooo = [r \in Replicas |-> FALSE]

\* the State of replica r runs apply_op(op)
ApplyOp(r, op) ==
    /\ state[r].pos = "ready"
    /\ state' = [state EXCEPT ![r] = apply_op(@, op)]
    /\ applied' = [applied EXCEPT ![r] = @ \cup {op}]
    /\ ooo' = [ooo EXCEPT ![r] = @ \/ OutOfOrder(state[r], op)]
    /\ call' = NoCall

\* replica r calls apply_op(op) on its State, as the tests do
Apply(r, op) ==
    /\ ApplyOp(r, op)
    /\ UNCHANGED << base, truncs, time, latest, handed, clk >>

\* The first replica applies an op of its own choice, which joins the pool.
\* It emits at most MaxOps different ops, and none once the second replica
\* has started (replicas share nothing: the order between them is free).
Emit(op) ==
    /\ applied[2] = {}
    /\ Cardinality(pool) < MaxOps \/ op \in pool
    /\ pool' = pool \cup {op}
    /\ Apply(1, op)

\* A replica applies an op of the pool it has not applied yet.  The harness
\* runs the replicas one after the other, as the tests do.
Deliver(r, op) ==
    /\ \A q \in Replicas : q < r => applied[q] = pool
    /\ op \in pool \ applied[r]
    /\ Apply(r, op)
    /\ UNCHANGED pool

\* Every op carries a timestamp of its own, as the algorithm requires.
EmitUnique ==
    /\ applied[2] = {}
    /\ \E op \in Ops :
          /\ \A o \in pool : ~ClockEq(o.timestamp, op.timestamp)
          /\ Emit(op)

\* Ops of any timestamp, repeated ones included.
EmitAny == \E op \in Ops : Emit(op)

DeliverAny == \E r \in Replicas, op \in pool : Deliver(r, op)

Next == EmitUnique \/ DeliverAny

Spec == Init /\ [][Next]_vars

\* One State and every sequence of at most MaxOps ops, timestamps repeated
\* or not, with ops applied again.
NextAll == EmitAny

SpecAll == Init /\ [][NextAll]_vars

(***************************************************************************)
(* One Vec of ops applied twice, as prop_idempotent does.  state[1] is the *)
(* State inside the loop of apply_ops_into, one apply_op per step; handed *)
(* is the part of the Vec consumed so far and state[2] is the State that   *)
(* state_from_ops builds from that part: a fresh State and one apply_ops.  *)
(***************************************************************************)
\* the ops of the Vec: every timestamp, parent and child, and a second
\* metadata for the node 1 under the forest root
SeqOps ==
    { op \in Ops : op.metadata = "x" \/ (op.parent_id = 0 /\ op.child_id = 1) }

state_from_ops(ops) == apply_ops(State_new, ops)

Hand(op) ==
    /\ Len(handed) < MaxOps
    /\ handed' = Append(handed, op)
    /\ pool' = pool \cup {op}
    /\ state[1].pos = "ready"
    /\ state' = [state EXCEPT ![1] = apply_op(@, op),
                              ![2] = state_from_ops(handed')]
    /\ applied' = [r \in Replicas |-> applied[r] \cup {op}]
    /\ ooo' = [ooo EXCEPT ![1] = @ \/ OutOfOrder(state[1], op)]
    /\ call' = NoCall
    /\ UNCHANGED << base, truncs, time, latest, clk >>

HandAny == \E op \in SeqOps : Hand(op)

NextSeq == HandAny

SpecSeq == Init /\ [][NextSeq]_vars

(***************************************************************************)
(* Log truncation: a State applies ops with timestamps of their own, in    *)
(* any order, and truncates its log before a threshold at any time.  The   *)
(* thresholds are the clocks of the ops and clocks above them all.         *)
(***************************************************************************)
Thresholds == { Clock_new(a, c) : a \in Actors, c \in 1 .. MaxCounter + 1 }

Truncate(r, timestamp) ==
    /\ state[r].pos = "ready"
    /\ truncs < MaxTruncs
    /\ truncs' = truncs + 1
    /\ \E overflow_checks \in BOOLEAN :
          LET res == truncate_log_before(state[r], timestamp, overflow_checks)
          IN  /\ state' = [state EXCEPT ![r] = res.state]
              /\ call' = [made |-> TRUE, threshold |-> timestamp,
                          before |-> state[r].log_op_list, ret |-> res.ret,
                          panicked |-> res.state.pos = "panicked"]
    /\ UNCHANGED << base, pool, applied, ooo, time, latest, handed, clk >>

TruncateAny == \E timestamp \in Thresholds : Truncate(1, timestamp)

NextTrunc == EmitUnique \/ TruncateAny

SpecTrunc == Init /\ [][NextTrunc]_vars

(***************************************************************************)
(* The Tree on its own: a caller that holds the tree of a State through    *)
(* tree_mut() calls add_node and rm_child with arguments of its choice.    *)
(***************************************************************************)
AddNode(child_id, tt) ==
    /\ state' = [state EXCEPT ![1].tree = add_node(@, child_id, tt)]
    /\ call' = NoCall
    /\ UNCHANGED << base, pool, applied, ooo, truncs, time, latest, handed, clk >>

RmChild(child_id) ==
    /\ state' = [state EXCEPT ![1].tree = rm_child(@, child_id)]
    /\ call' = NoCall
    /\ UNCHANGED << base, pool, applied, ooo, truncs, time, latest, handed, clk >>

\* no node is reached from itself by parent steps, and the children index
\* holds c under p exactly when c's entry has parent p
Consistent(tree) ==
    /\ \A p \in DOMAIN tree.children : \A c \in tree.children[p] :
           c \in DOMAIN tree.triples /\ tree.triples[c].parent_id = p
    /\ \A c \in DOMAIN tree.triples :
           /\ tree.triples[c].parent_id \in DOMAIN tree.children
           /\ c \in tree.children[tree.triples[c].parent_id]
    /\ \A c \in DOMAIN tree.triples : is_ancestor(tree, c, c) = "false"

\* rm_subtree on a tree where it returns, in one of the orders of the walk
RmSubtree(parent_id, include_parent) ==
    /\ Consistent(state[1].tree)
    /\ \E after \in rm_subtree(state[1].tree, parent_id, include_parent) :
           state' = [state EXCEPT ![1].tree = after]
    /\ call' = NoCall
    /\ UNCHANGED << base, pool, applied, ooo, truncs, time, latest, handed, clk >>

AddNodeAny ==
    \E child_id \in Nodes, parent_id \in Nodes, metadata \in Metas :
        AddNode(child_id, TreeNode_new(parent_id, metadata))

RmChildAny == \E child_id \in Nodes : RmChild(child_id)

NextTree == AddNodeAny \/ RmChildAny

SpecTree == Init /\ [][NextTree]_vars

RmSubtreeAny ==
    \E parent_id \in Nodes, include_parent \in BOOLEAN :
        RmSubtree(parent_id, include_parent)

\* The tree alone, with rm_subtree as well
NextSubtree == AddNodeAny \/ RmChildAny \/ RmSubtreeAny

SpecSubtree == Init /\ [][NextSubtree]_vars

(***************************************************************************)
(* A Clock alone: it starts with a counter next to 0 or next to u64::MAX   *)
(* and inc and tick are called on it, in a build with overflow checks or   *)
(* without, as long as its counter is one of those.                        *)
(***************************************************************************)
EdgeCounters == (0 .. MaxEdge - 1) \cup { U64Max - i : i \in 0 .. MaxEdge - 1 }

InitClock ==
    /\ \E a \in Actors, c \in EdgeCounters :
           clk = [op |-> "new", before |-> Clock_new(a, c), self |-> Clock_new(a, c),
                  ret |-> Clock_new(a, c), pos |-> "ready"]
    /\ NewReplicas
    /\ call = NoCall
    /\ truncs = 0
    /\ handed = << >>
    /\ base = State_new
    /\ pool = {}
    /\ state = [r \in Replicas |-> State_new]
    /\ applied = [r \in Replicas |-> {}]
    /\ ooo = [r \in Replicas |-> FALSE]

ClockInc ==
    /\ clk.pos = "ready"
    /\ clk.self.counter \in EdgeCounters
    /\ \E overflow_checks \in BOOLEAN :
          LET r == inc_u64(clk.self, overflow_checks)
          IN  clk' = [op |-> "inc", before |-> clk.self, self |-> r.self, ret |-> r.ret,
                      pos |-> IF r.panic THEN "panicked" ELSE "ready"]
    /\ UNCHANGED << base, pool, state, applied, ooo, call, truncs, time, latest, handed >>

ClockTick ==
    /\ clk.pos = "ready"
    /\ clk.self.counter \in EdgeCounters
    /\ \E overflow_checks \in BOOLEAN :
          LET r == tick_u64(clk.self, overflow_checks)
          IN  clk' = [op |-> "tick", before |-> clk.self, self |-> r.self, ret |-> r.ret,
                      pos |-> IF r.panic THEN "panicked" ELSE "ready"]
    /\ UNCHANGED << base, pool, state, applied, ooo, call, truncs, time, latest, handed >>

NextClock == ClockInc \/ ClockTick

SpecClock == InitClock /\ [][NextClock]_vars

(***************************************************************************)
(* The Replica of examples/tree.rs: a State, a clock and the latest        *)
(* timestamp applied from each actor.  A replica mints an op with a tick   *)
(* of its clock; the op joins the pool, from which every replica, the      *)
(* minting one too, applies it at any later time.                          *)
(***************************************************************************)
\* Replica::tick
Replica_tick(self_time) ==
    LET t == inc(self_time).ret
    IN  [time |-> t, ret |-> t]

\* (mutant) the latest timestamp of an actor is the one applied last
update_latest_always(map, op) ==
    MapInsert(map, op.timestamp.actor_id, op.timestamp)

\* apply_ops_noref: store latest timestamp for this actor
update_latest(map, op) ==
    LET id == op.timestamp.actor_id
        result == MapGet(map, id)
    IN  IF IsSome(result) /\ ~ClockGt(op.timestamp, Unwrap(result))
        THEN map
        ELSE MapInsert(map, id, op.timestamp)

\* (mutant) the last of the values sorted by cmp
causally_stable_threshold_max(map) ==
    LET v == { map[a] : a \in DOMAIN map }
    IN  IF v # {}
        THEN Some(CHOOSE t \in v : \A u \in v : ~ClockLt(t, u))
        ELSE None

\* Replica::causally_stable_threshold: the first of the values sorted by cmp
causally_stable_threshold(map) ==
    LET v == { map[a] : a \in DOMAIN map }
    IN  IF v # {}
        THEN Some(CHOOSE t \in v : \A u \in v : ~ClockGt(t, u))
        ELSE None

\* what the ops of the replicas do: a child of 1 .. MaxNode under a parent
\* of 0 .. MaxNode - 1
MintBodies ==
    { [parent_id |-> p, metadata |-> "x", child_id |-> c] :
        p \in 0 .. MaxNode - 1, c \in 1 .. MaxNode }

\* OpMove::new(r.tick(), parent_id, metadata, child_id)
Mint(r, body) ==
    /\ time[r].counter < MaxCounter
    /\ Cardinality(pool) < MaxOps
    /\ LET t == Replica_tick(time[r])
       IN  /\ time' = [time EXCEPT ![r] = t.time]
           /\ pool' = pool \cup { OpMove_new(t.ret, body.parent_id, body.metadata,
                                              body.child_id) }
    /\ call' = NoCall
    /\ UNCHANGED << base, state, applied, ooo, truncs, latest, handed, clk >>

\* one iteration of the loop of apply_ops_noref
ReplicaApply(r, op) ==
    /\ op \in pool \ applied[r]
    /\ time' = [time EXCEPT ![r] = merge(@, op.timestamp).ret]
    /\ latest' = [latest EXCEPT ![r] = update_latest(@, op)]
    /\ ApplyOp(r, op)
    /\ UNCHANGED << base, pool, truncs, handed, clk >>

\* Replica::truncate_log on a Replica with this latest_time_by_replica and
\* this State: the State afterwards, the value returned and the threshold
\* handed to truncate_log_before, if it was called
truncate_log(map, s, overflow_checks) ==
    LET result == causally_stable_threshold(map)
    IN  IF IsSome(result)
        THEN LET res == truncate_log_before(s, Unwrap(result), overflow_checks)
             IN  [state |-> res.state, ret |-> res.ret, threshold |-> result]
        ELSE [state |-> s, ret |-> FALSE, threshold |-> None]

\* replica r calls truncate_log
ReplicaTruncate(r) ==
    /\ state[r].pos = "ready"
    /\ \E overflow_checks \in BOOLEAN :
          LET res == truncate_log(latest[r], state[r], overflow_checks)
          IN  /\ state' = [state EXCEPT ![r] = res.state]
              /\ call' = IF IsSome(res.threshold)
                         THEN [made |-> TRUE, threshold |-> Unwrap(res.threshold),
                               before |-> state[r].log_op_list, ret |-> res.ret,
                               panicked |-> res.state.pos = "panicked"]
                         ELSE NoCall
    /\ UNCHANGED << base, pool, applied, ooo, truncs, time, latest, handed, clk >>

MintAny == \E r \in Replicas, body \in MintBodies : Mint(r, body)

ReplicaApplyAny == \E r \in Replicas, op \in pool : ReplicaApply(r, op)

ReplicaTruncateAny == \E r \in Replicas : ReplicaTruncate(r)

NextReplica == MintAny \/ ReplicaApplyAny \/ ReplicaTruncateAny

SpecReplica == Init /\ [][NextReplica]_vars

(***************************************************************************)
(* Concurrent moves (concurrent_moves of test/tree.rs and                  *)
(* test_concurrent_moves of examples/tree.rs): both replicas hold the      *)
(* State built from ops the first actor has emitted with the ticks 1..k of *)
(* its clock; then the first actor emits an op with its next tick and the  *)
(* second actor one with a tick of its own clock, which has merged what    *)
(* it has seen (k + 1) or not (a smaller counter).  Each replica applies   *)
(* both ops, in its own order.                                             *)
(***************************************************************************)
MaxBase == 2

Bodies == { [parent_id |-> p, metadata |-> m, child_id |-> c] :
                p \in Nodes, m \in Metas, c \in Nodes }

\* the sequences of at most n bodies
RECURSIVE BodySeqs(_)
BodySeqs(n) ==
    IF n = 0 THEN { << >> }
    ELSE LET less == BodySeqs(n - 1)
         IN  less \cup { Append(q, b) : q \in less, b \in Bodies }

\* the ops an actor emits for a sequence of bodies, ticking its clock from 0
Emitted(actor, bodies) ==
    [i \in 1 .. Len(bodies) |->
        OpMove_new(Clock_new(actor, i), bodies[i].parent_id,
                   bodies[i].metadata, bodies[i].child_id)]

InitConc ==
    \E a1 \in Actors, a2 \in Actors, bodies \in BodySeqs(MaxBase),
       c \in Nodes, p1 \in Nodes, p2 \in Nodes, m1 \in Metas, m2 \in Metas :
        LET k == Len(bodies)
        IN  \E c2 \in 1 .. k + 1 :
                /\ a1 # a2
                /\ p1 # p2
                /\ base = apply_ops(State_new, Emitted(a1, bodies))
                /\ pool = { OpMove_new(Clock_new(a1, k + 1), p1, m1, c),
                            OpMove_new(Clock_new(a2, c2), p2, m2, c) }
                /\ state = [r \in Replicas |-> base]
                /\ applied = [r \in Replicas |-> {}]
                /\ ooo = [r \in Replicas |-> FALSE]
                /\ call = NoCall
                /\ truncs = 0
                /\ handed = << >>
                /\ clk = NoClock
                /\ NewReplicas

NextConc == DeliverAny

SpecConc == InitConc /\ [][NextConc]_vars

(***************************************************************************)
(* Concurrent moves that would close a cycle (concurrent_moves_cycle of    *)
(* test/tree.rs, test_concurrent_moves_cycle of examples/tree.rs).  The    *)
(* first actor builds root->{a, b}, a->{c} with the ticks 1..4 of its      *)
(* clock and moves b under a with the tick 5; the second actor moves a     *)
(* under b with a tick of its own clock: 1 when the clock has merged       *)
(* nothing (test/tree.rs), 5 when it has merged the four ops               *)
(* (examples/tree.rs), or a counter in between.  A move keeps the name of   *)
(* the node, as in the tests, or renames it.                               *)
(***************************************************************************)
forest_id == 0
root_id == 1
a_id == 2
b_id == 3
c_id == 4

CycleOps(actor) ==
    << OpMove_new(Clock_new(actor, 1), forest_id, "root", root_id),
       OpMove_new(Clock_new(actor, 2), root_id, "a", a_id),
       OpMove_new(Clock_new(actor, 3), root_id, "b", b_id),
       OpMove_new(Clock_new(actor, 4), a_id, "c", c_id) >>

\* the names the moved node may get: its own (as in the tests) or the other's
MoveMetas == {"a", "b"}

r1_op(actor, m) == OpMove_new(Clock_new(actor, Len(CycleOps(actor)) + 1), a_id, m, b_id)

r2_op(actor, counter, m) == OpMove_new(Clock_new(actor, counter), b_id, m, a_id)

InitCycle ==
    \E a1 \in Actors, a2 \in Actors, m1 \in MoveMetas, m2 \in MoveMetas :
        \E c2 \in 1 .. Len(CycleOps(a1)) + 1 :
            /\ a1 # a2
            /\ base = apply_ops(State_new, CycleOps(a1))
            /\ pool = { r1_op(a1, m1), r2_op(a2, c2, m2) }
            /\ state = [r \in Replicas |-> base]
            /\ applied = [r \in Replicas |-> {}]
            /\ ooo = [r \in Replicas |-> FALSE]
            /\ call = NoCall
            /\ truncs = 0
            /\ handed = << >>
            /\ clk = NoClock
            /\ NewReplicas

NextCycle == DeliverAny

SpecCycle == InitCycle /\ [][NextCycle]_vars

(***************************************************************************)
(* Equality of States (derived PartialEq): the logs entry by entry, with   *)
(* the clocks compared by cmp, and the trees.                              *)
(***************************************************************************)
LogOpMoveEq(a, b) ==
    /\ ClockEq(a.timestamp, b.timestamp)
    /\ a.parent_id = b.parent_id
    /\ a.metadata = b.metadata
    /\ a.child_id = b.child_id
    /\ a.oldp = b.oldp

StateEq(s1, s2) ==
    /\ Len(s1.log_op_list) = Len(s2.log_op_list)
    /\ \A i \in 1 .. Len(s1.log_op_list) :
          LogOpMoveEq(s1.log_op_list[i], s2.log_op_list[i])
    /\ s1.tree = s2.tree

\* the helper acyclic of test/tree.rs: no node of the tree is its own ancestor
acyclic(s) ==
    \A n \in DOMAIN s.tree.triples : is_ancestor(s.tree, n, n) = "false"

\* the helper check_log_is_descending of test/tree.rs, without its len() - 1
log_is_descending(s) ==
    \A i \in 1 .. Len(s.log_op_list) - 1 :
        ClockGt(s.log_op_list[i].timestamp, s.log_op_list[i + 1].timestamp)

(***************************************************************************)
(* Helpers of the properties.                                              *)
(***************************************************************************)
\* the ops of a set with unique timestamps, oldest first
RECURSIVE SortAsc(_)
SortAsc(ops) ==
    IF ops = {} THEN << >>
    ELSE LET m == CHOOSE x \in ops :
                    \A y \in ops : y = x \/ ClockLt(x.timestamp, y.timestamp)
         IN  << m >> \o SortAsc(ops \ {m})

Reverse(seq) == [i \in 1 .. Len(seq) |-> seq[Len(seq) + 1 - i]]

LogOps(s) == [i \in 1 .. Len(s.log_op_list) |-> from_log_op_move(s.log_op_list[i])]

\* the entry was refused by do_op's ancestor check on the tree it was done on
\* (it is the head of the log, so that tree is the present one)
HeadRefusedForCycle(s) ==
    /\ Len(s.log_op_list) > 0
    /\ LET e == s.log_op_list[1]
       IN  /\ e.child_id # e.parent_id
           /\ is_ancestor(s.tree, e.parent_id, e.child_id) = "true"

(***************************************************************************)
(* C1: ops with pairwise distinct timestamps, applied to fresh States in   *)
(* any two orders, give equal States: equal trees and equal logs, each     *)
(* entry's oldp included.                                                  *)
(***************************************************************************)
C1_Commutative ==
    \A r1 \in Replicas, r2 \in Replicas :
        (applied[r1] = applied[r2] /\ UniqueTimestamps(applied[r1]))
            => StateEq(state[r1], state[r2])

\* both replicas have applied the same MaxOps ops, one in timestamp order
\* and the other not
C1_Witness ==
    /\ applied[1] = applied[2]
    /\ Cardinality(applied[1]) = MaxOps
    /\ ~ooo[1] /\ ooo[2]
    /\ \E e \in DOMAIN state[2].log_op_list : IsSome(state[2].log_op_list[e].oldp)

(***************************************************************************)
(* C2: the tree of every State reached by apply_op calls, in timestamp     *)
(* order or not, is acyclic: no node is its own ancestor.                  *)
(***************************************************************************)
C2_Acyclic == \A r \in Replicas : state[r].pos = "ready" /\ acyclic(state[r])

\* an op that would have closed a cycle has been applied out of order and refused
C2_Witness == ooo[1] /\ HeadRefusedForCycle(state[1])

(***************************************************************************)
(* C3: the log of every State reached by apply_op calls is strictly        *)
(* descending by timestamp, also when ops arrive older than the log head   *)
(* or repeat a timestamp.                                                  *)
(***************************************************************************)
C3_LogDescending == \A r \in Replicas : log_is_descending(state[r])

\* an op has arrived older than the head, another with a timestamp already
\* applied, and the log holds two entries
C3_Witness ==
    /\ ooo[1]
    /\ ~UniqueTimestamps(applied[1])
    /\ Len(state[1].log_op_list) >= 2

(***************************************************************************)
(* C4: in every State reached by apply_op calls, children(p) contains c    *)
(* if and only if find(c) is present with parent p, so that every node of  *)
(* the tree is in the child set of exactly one parent.                     *)
(***************************************************************************)
C4_ParentUnique ==
    \A r \in Replicas :
        LET t == state[r].tree
        IN  /\ DOMAIN t.children \subseteq Nodes
            /\ DOMAIN t.triples \subseteq Nodes
            /\ \A p \in Nodes, c \in Nodes :
                  c \in children(t, p)
                      <=> (IsSome(find(t, c)) /\ Unwrap(find(t, c)).parent_id = p)
            /\ \A c \in DOMAIN t.triples :
                  Cardinality({ p \in Nodes : c \in children(t, p) }) = 1

\* a node has been moved from one parent to another, and the tree holds two nodes
C4_Witness ==
    /\ Cardinality(DOMAIN state[1].tree.triples) >= 2
    /\ \E i \in DOMAIN state[1].log_op_list :
          LET e == state[1].log_op_list[i]
          IN  /\ IsSome(e.oldp)
              /\ Unwrap(e.oldp).parent_id # e.parent_id
              /\ find(state[1].tree, e.child_id) = Some(TreeNode_new(e.parent_id, e.metadata))

(***************************************************************************)
(* C5: ops with pairwise distinct timestamps, applied in any order of      *)
(* arrival, give the State that a fresh State reaches when it applies      *)
(* them in ascending timestamp order, and the log lists them newest first. *)
(***************************************************************************)
C5_AsInTimestampOrder ==
    \A r \in Replicas :
        UniqueTimestamps(applied[r]) =>
            /\ StateEq(state[r], apply_ops(State_new, SortAsc(applied[r])))
            /\ LogOps(state[r]) = Reverse(SortAsc(applied[r]))

\* MaxOps ops have arrived, one of them older than the head of the log, and
\* the newest of them has moved a node that an older one had placed
C5_Witness ==
    /\ ooo[2]
    /\ Cardinality(applied[2]) = MaxOps
    /\ IsSome(state[2].log_op_list[1].oldp)

(***************************************************************************)
(* C6: two replicas hold the same State; two ops with different            *)
(* timestamps move the same child c to two different parents, neither      *)
(* move forming a cycle; once both replicas have applied both ops, in      *)
(* either order, their States are equal and c is a child of the parent     *)
(* named by the op with the greater timestamp (greater counter, or greater *)
(* actor when the counters are equal), and of no other parent.             *)
(***************************************************************************)
\* the order of the claim, written out
Greater(t1, t2) ==
    \/ t1.counter > t2.counter
    \/ t1.counter = t2.counter /\ t1.actor_id > t2.actor_id

\* do_op would change the tree of s for op: no self-move, no cycle
Accepted(s, op) ==
    /\ op.child_id # op.parent_id
    /\ is_ancestor(s.tree, op.parent_id, op.child_id) = "false"

AllApplied == \A r \in Replicas : applied[r] = pool

\* the ops of the pool carry timestamps that the log of base does not hold
FreshTimestamps ==
    \A op \in pool, i \in DOMAIN base.log_op_list :
        ~(op.timestamp = base.log_op_list[i].timestamp)

\* the ops of the pool are newer than every entry of the log of base
NewerThanLog ==
    \A op \in pool, i \in DOMAIN base.log_op_list :
        Greater(op.timestamp, base.log_op_list[i].timestamp)

\* c is a child of the parent of the newest op of the pool and of no other
NewestWins(s) ==
    \A w \in pool :
        (\A o \in pool : o = w \/ Greater(w.timestamp, o.timestamp)) =>
            /\ IsSome(find(s.tree, w.child_id))
            /\ Unwrap(find(s.tree, w.child_id)).parent_id = w.parent_id
            /\ \A p \in DOMAIN s.tree.children :
                  w.child_id \in children(s.tree, p) => p = w.parent_id

\* the claim as stated: any two ops with different timestamps
C6_AnyTimestamps ==
    (AllApplied /\ FreshTimestamps /\ \A op \in pool : Accepted(base, op)) =>
        /\ StateEq(state[1], state[2])
        /\ NewestWins(state[1]) /\ NewestWins(state[2])

\* the claim for two ops that are newer than every op the replicas hold
C6_NewestWins ==
    (AllApplied /\ NewerThanLog /\ \A op \in pool : Accepted(base, op)) =>
        /\ StateEq(state[1], state[2])
        /\ NewestWins(state[1]) /\ NewestWins(state[2])

\* both replicas have applied both ops, in different orders; the ops are newer
\* than the two entries of the log they started from, differ only by the actor
\* in their timestamps, and move a child that the tree held
C6_Witness ==
    /\ AllApplied /\ NewerThanLog /\ \A op \in pool : Accepted(base, op)
    /\ Len(base.log_op_list) = MaxBase
    /\ ~ooo[1] /\ ooo[2]
    /\ \A o1 \in pool, o2 \in pool : o1.timestamp.counter = o2.timestamp.counter
    /\ \E op \in pool : IsSome(find(base.tree, op.child_id))

(***************************************************************************)
(* C7: from the tree root->{a, b}, a->{c} on two replicas, one replica     *)
(* moves b under a and the other concurrently a under b; once both         *)
(* replicas have applied both ops, in either order, their States are       *)
(* equal, neither tree holds a cycle, and exactly one of the two moves     *)
(* has taken effect in the final tree.                                     *)
(***************************************************************************)
ParentOf(s, c) == IF IsSome(find(s.tree, c)) THEN Unwrap(find(s.tree, c)).parent_id ELSE -1

BUnderA(s) == ParentOf(s, b_id) = a_id

AUnderB(s) == ParentOf(s, a_id) = b_id

C7_OneMoveTakesEffect ==
    AllApplied =>
        /\ StateEq(state[1], state[2])
        /\ \A r \in Replicas :
              /\ state[r].pos = "ready"
              /\ acyclic(state[r])
              /\ BUnderA(state[r]) # AUnderB(state[r])

\* the replicas started from root->{a, b}, a->{c} and have applied both ops,
\* in different orders; the second actor's op is as new as the first one's
C7_Witness ==
    /\ AllApplied
    /\ base.tree.children = (forest_id :> {root_id} @@ root_id :> {a_id, b_id} @@ a_id :> {c_id})
    /\ ooo[1] # ooo[2]
    /\ \A o1 \in pool, o2 \in pool : o1.timestamp.counter = o2.timestamp.counter

(***************************************************************************)
(* Log truncation                                                          *)
(***************************************************************************)
\* The entries of a log that are not older than a threshold, in their order
KeptBy(log, threshold) ==
    SelectSeq(log, LAMBDA e : ~ClockLt(e.timestamp, threshold))

\* The log of the truncating State right after the call
LogAfterCall == state[1].log_op_list

\* C8: truncate_log_before(threshold) removes every log entry whose
\* timestamp is strictly less than threshold and no other entry: what is
\* left is the entries at or above the threshold, in the same order.
C8_RemovesExactlyOlder ==
    (call.made /\ ~call.panicked) =>
        LogAfterCall = KeptBy(call.before, call.threshold)

\* C9: truncate_log_before returns true if and only if the call removed at
\* least one log entry.
C9_ReturnsWhetherRemoved ==
    (call.made /\ ~call.panicked) =>
        (call.ret <=> Len(LogAfterCall) < Len(call.before))

\* C10: truncate_log_before on a State whose log is empty raises no error,
\* leaves the State unchanged and returns false.
C10_EmptyLogNoOp ==
    (call.made /\ call.before = << >>) =>
        /\ ~call.panicked
        /\ call.ret = FALSE
        /\ LogAfterCall = << >>
        /\ state[1].pos = "ready"

(***************************************************************************)
(* C11: truncate_log_before never changes the tree: in every step that is  *)
(* a call of it, the tree of every replica is afterwards what it was       *)
(* before, so trees that were equal before the call are equal after it.    *)
(***************************************************************************)
C11_TruncateKeepsTree ==
    [][call'.made =>
          /\ \A r \in Replicas : state'[r].tree = state[r].tree
          /\ (state[1].tree = state[2].tree) => (state'[1].tree = state'[2].tree)]_vars

\* both replicas have applied the same ops and truncated their logs, the
\* last call removed entries and returned, and the trees are not empty
C11_Witness ==
    /\ call.made /\ ~call.panicked
    /\ applied[1] = applied[2]
    /\ \A r \in Replicas :
          /\ state[r].pos = "ready"
          /\ Len(state[r].log_op_list) < Cardinality(applied[r])
    /\ state[1].tree = state[2].tree
    /\ state[1].tree # Tree_new

(***************************************************************************)
(* C12: the threshold a Replica computes, the minimum of its latest        *)
(* timestamps, is causally stable: no op the replica applies after having  *)
(* computed it has a timestamp less than the threshold.                    *)
(***************************************************************************)
C12_ThresholdStable ==
    [][\A r \in Replicas : \A op \in applied'[r] \ applied[r] :
          LET result == causally_stable_threshold(latest[r])
          IN  IsSome(result) => ~ClockLt(op.timestamp, Unwrap(result))]_vars

(***************************************************************************)
(* Refused moves                                                           *)
(***************************************************************************)
\* the ops a step makes replica r apply
NewlyApplied(r) == applied'[r] \ applied[r]

\* the log of s has an entry with the timestamp, parent, metadata and child
\* of op
Logged(s, op) ==
    \E i \in DOMAIN s.log_op_list : from_log_op_move(s.log_op_list[i]) = op

\* C13: applying a self-move (child = parent) leaves the tree unchanged, and
\* the op is recorded in the log with its timestamp, parent, metadata and
\* child.
C13_SelfMoveRefused ==
    [][\A r \in Replicas : \A op \in NewlyApplied(r) :
          op.child_id = op.parent_id =>
              /\ state'[r].pos = "ready"
              /\ state'[r].tree = state[r].tree
              /\ Logged(state'[r], op)]_vars

\* a replica that has taken the undo/redo branch of apply_op holds in its
\* log, below the head, a self-move of a node that was and still is in the
\* tree
C13_Witness ==
    \E r \in Replicas : \E i \in DOMAIN state[r].log_op_list :
        LET e == state[r].log_op_list[i]
        IN  /\ i > 1
            /\ ooo[r]
            /\ e.child_id = e.parent_id
            /\ IsSome(e.oldp)
            /\ IsSome(find(state[r].tree, e.child_id))

\* op is newer than every entry of the log of s
Newest(s, op) ==
    \A i \in DOMAIN s.log_op_list : ClockGt(op.timestamp, s.log_op_list[i].timestamp)

\* C14: applying, with the newest timestamp, an op whose child is an
\* ancestor of the op's new parent leaves the tree unchanged, and the op is
\* recorded in the log (at its head, with the node the child had).
C14_CycleMoveRefused ==
    [][\A r \in Replicas : \A op \in NewlyApplied(r) :
          (/\ Newest(state[r], op)
           /\ is_ancestor(state[r].tree, op.parent_id, op.child_id) = "true") =>
              /\ state'[r].pos = "ready"
              /\ state'[r].tree = state[r].tree
              /\ state'[r].log_op_list =
                     << LogOpMove_new(op, find(state[r].tree, op.child_id)) >>
                         \o state[r].log_op_list]_vars

\* a replica that got every op in timestamp order has a full log whose
\* head moves a node under one of its descendants
C14_Witness ==
    \E r \in Replicas :
        /\ ~ooo[r]
        /\ Len(state[r].log_op_list) = MaxOps
        /\ HeadRefusedForCycle(state[r])

C16_IndexConsistent ==
    LET t == state[1].tree
    IN  \A p \in Nodes, c \in Nodes :
            (c \in children(t, p))
                = (IsSome(find(t, c)) /\ Unwrap(find(t, c)).parent_id = p)

(***************************************************************************)
(* Clocks                                                                  *)
(***************************************************************************)
\* the clocks a state holds: the timestamps of the ops and of the log
\* entries, and the clocks and latest timestamps of the replicas
ClocksInState ==
    Timestamps(pool)
        \cup { time[r] : r \in Replicas }
        \cup UNION { { latest[r][a] : a \in DOMAIN latest[r] } : r \in Replicas }
        \cup UNION { { state[r].log_op_list[i].timestamp :
                           i \in DOMAIN state[r].log_op_list } : r \in Replicas }

\* C17: the comparison of clocks is a total order on (counter, actor):
\* exactly one of a < b, a = b, a > b holds, the order is antisymmetric and
\* transitive, counters are compared first and the actor breaks the tie, and
\* a = b holds only when actor and counter both match.
C17_TotalOrder ==
    \A a \in ClocksInState, b \in ClocksInState :
        /\ Cardinality({ x \in {"lt", "eq", "gt"} :
                            \/ x = "lt" /\ ClockLt(a, b)
                            \/ x = "eq" /\ ClockEq(a, b)
                            \/ x = "gt" /\ ClockLt(b, a) }) = 1
        /\ ClockLt(a, b) <=> ClockGt(b, a)
        /\ ClockEq(a, b) <=> ClockEq(b, a)
        /\ \A c \in ClocksInState : (ClockLt(a, b) /\ ClockLt(b, c)) => ClockLt(a, c)
        /\ a.counter < b.counter => ClockLt(a, b)
        /\ (a.counter = b.counter /\ a.actor_id < b.actor_id) => ClockLt(a, b)
        /\ ClockEq(a, b) <=> (a.actor_id = b.actor_id /\ a.counter = b.counter)

\* the State has been handed ops with three timestamps a < b < c, where a
\* and b have the same counter, and c is at the head of its log
C17_Witness ==
    \E o1 \in applied[1], o2 \in applied[1], o3 \in applied[1] :
        /\ o1.timestamp.counter = o2.timestamp.counter
        /\ o1.timestamp.actor_id < o2.timestamp.actor_id
        /\ o2.timestamp.counter < o3.timestamp.counter
        /\ Len(state[1].log_op_list) = 3
        /\ state[1].log_op_list[1].timestamp = o3.timestamp

\* C18: inc returns a clock with the same actor and counter + 1, merge
\* returns a clock with the actor of self and the greater of the two
\* counters, and neither changes the clock it is called on; so the clock of
\* a replica, made by inc and merge alone, keeps the replica's actor.
C18_IncMerge ==
    /\ \A a \in ClocksInState :
          /\ inc(a).ret.actor_id = a.actor_id
          /\ inc(a).ret.counter = a.counter + 1
          /\ inc(a).self = a
    /\ \A a \in ClocksInState, b \in ClocksInState :
          LET m == merge(a, b)
          IN  /\ m.ret.actor_id = a.actor_id
              /\ m.ret.counter >= a.counter
              /\ m.ret.counter >= b.counter
              /\ m.ret.counter \in {a.counter, b.counter}
              /\ m.self = a
    /\ \A r \in Replicas : time[r].actor_id = r

\* a replica has merged a timestamp of the other actor with a counter above
\* its own and then minted an op with inc
C18_Witness ==
    \E r \in Replicas : \E o1 \in applied[r], o2 \in pool :
        /\ o1.timestamp.actor_id # r
        /\ o2.timestamp.actor_id = r
        /\ o2.timestamp.counter = o1.timestamp.counter + 1
        /\ time[r] = o2.timestamp
        /\ \A o \in pool \ {o2} : o.timestamp.actor_id # r

(***************************************************************************)
(* The bookkeeping of a Replica                                            *)
(***************************************************************************)
\* the timestamps of the ops replica r has applied from an actor
AppliedFrom(r, actor) ==
    { op.timestamp : op \in { o \in applied[r] : o.timestamp.actor_id = actor } }

\* C19: the counter of a Replica's clock is at least the counter of every
\* op the Replica has applied, its latest timestamp of an actor is the
\* greatest timestamp of the ops it has applied from that actor, and no
\* step makes a latest timestamp smaller, in whatever order the ops come.
C19_ClockAndLatest ==
    /\ [](\A r \in Replicas :
            /\ \A op \in applied[r] : time[r].counter >= op.timestamp.counter
            /\ \A a \in Actors :
                  IF AppliedFrom(r, a) = {}
                  THEN a \notin DOMAIN latest[r]
                  ELSE /\ a \in DOMAIN latest[r]
                       /\ latest[r][a] \in AppliedFrom(r, a)
                       /\ \A t \in AppliedFrom(r, a) : ~ClockGt(t, latest[r][a]))
    /\ [][\A r \in Replicas : \A a \in DOMAIN latest[r] :
             /\ a \in DOMAIN latest'[r]
             /\ ~ClockLt(latest'[r][a], latest[r][a])]_vars

\* a replica has applied two ops of the other actor, the newer one first
C19_Witness ==
    \E r \in Replicas : \E o1 \in applied[r], o2 \in applied[r] :
        /\ applied[r] = {o1, o2}
        /\ o1.timestamp.actor_id # r
        /\ o2.timestamp.actor_id = o1.timestamp.actor_id
        /\ ClockLt(o1.timestamp, o2.timestamp)
        /\ ooo[r]
        /\ latest[r][o1.timestamp.actor_id] = o2.timestamp

\* C20: the timestamps the replicas mint are globally unique: a tick of a
\* replica's clock gives a timestamp that no op minted before carries, by
\* that replica or another, under any interleaving of ticks and deliveries.
C20_UniqueTimestamps ==
    /\ [](\A o1 \in pool, o2 \in pool :
            ClockEq(o1.timestamp, o2.timestamp) => o1 = o2)
    /\ [][\A r \in Replicas :
             (time'[r] # time[r] /\ applied'[r] = applied[r]) =>
                 \A o \in pool : ~ClockEq(o.timestamp, time'[r])]_vars

\* two replicas have minted ops with the same counter, and one of them has
\* applied the other's op and minted again
C20_Witness ==
    \E o1 \in pool, o2 \in pool, o3 \in pool :
        /\ o1.timestamp.counter = o2.timestamp.counter
        /\ o1.timestamp.actor_id # o2.timestamp.actor_id
        /\ o3.timestamp.actor_id = o1.timestamp.actor_id
        /\ o3.timestamp.counter = o2.timestamp.counter + 1
        /\ o2 \in applied[o1.timestamp.actor_id]
        /\ time[o1.timestamp.actor_id] = o3.timestamp

(***************************************************************************)
(* C21: in every State reachable by apply_op calls the forest root id      *)
(* never appears as a child: it has no entry in the child-to-node map and  *)
(* is in no node's child set, whatever ops are applied.                    *)
(***************************************************************************)
C21_ForestRootNeverChild ==
    \A r \in Replicas :
        /\ ~IsSome(find(state[r].tree, forest_id))
        /\ \A p \in DOMAIN state[r].tree.children :
               forest_id \notin state[r].tree.children[p]

\* do_op refuses the op on this State: a self-move, or a move under a
\* descendant of the child
Refused(s, op) ==
    \/ op.child_id = op.parent_id
    \/ is_ancestor(s.tree, op.parent_id, op.child_id) = "true"

(***************************************************************************)
(* C22: for every State a replica reaches and every op, accepted or        *)
(* refused, do_op followed by undo_op of the LogOpMove it returned gives   *)
(* back exactly the State before do_op (child-to-node map and child index);*)
(* in particular undoing the LogOpMove of a refused op changes nothing.    *)
(***************************************************************************)
C22_DoUndoRestores ==
    \A op \in Ops :
        LET d == do_op(state[1], op)
        IN  d.state.pos = "ready" =>
                /\ undo_op(d.state, d.log) = state[1]
                /\ Refused(state[1], op) => undo_op(state[1], d.log) = state[1]

\* a replica that has already undone and redone an entry holds a tree where
\* one op moves an existing node to another parent and another op on an
\* existing node is refused because it would close a cycle
C22_Witness ==
    /\ ooo[1]
    /\ state[1].pos = "ready"
    /\ \E op \in Ops :
           /\ IsSome(find(state[1].tree, op.child_id))
           /\ ~Refused(state[1], op)
           /\ Unwrap(find(state[1].tree, op.child_id)).parent_id # op.parent_id
    /\ \E op \in Ops :
           /\ IsSome(find(state[1].tree, op.child_id))
           /\ op.child_id # op.parent_id
           /\ Refused(state[1], op)

C24_DoOpResult ==
    \A op \in Ops :
        LET s == state[1]
            d == do_op(s, op)
            c == op.child_id
        IN  d.state.pos = "ready" =>
                /\ d.log.timestamp = op.timestamp
                /\ d.log.parent_id = op.parent_id
                /\ d.log.metadata = op.metadata
                /\ d.log.child_id = c
                /\ d.log.oldp = IF c \in DOMAIN s.tree.triples
                                THEN << s.tree.triples[c] >> ELSE << >>
                /\ ~Refused(s, op) =>
                       /\ c \in DOMAIN d.state.tree.triples
                       /\ d.state.tree.triples[c] =
                              [parent_id |-> op.parent_id, metadata |-> op.metadata]
                       /\ d.state.log_op_list = s.log_op_list

\* the tree of a State with three ops handed offers all three cases: an op
\* that creates a node, one that moves a node to another parent and one that
\* only changes a node's metadata
C24_Witness ==
    /\ Len(handed) = MaxOps
    /\ state[1].pos = "ready"
    /\ \E op \in Ops :
           ~Refused(state[1], op) /\ ~IsSome(find(state[1].tree, op.child_id))
    /\ \E op \in Ops :
           /\ ~Refused(state[1], op)
           /\ IsSome(find(state[1].tree, op.child_id))
           /\ Unwrap(find(state[1].tree, op.child_id)).parent_id # op.parent_id
    /\ \E op \in Ops :
           /\ ~Refused(state[1], op)
           /\ IsSome(find(state[1].tree, op.child_id))
           /\ Unwrap(find(state[1].tree, op.child_id)).parent_id = op.parent_id
           /\ Unwrap(find(state[1].tree, op.child_id)).metadata # op.metadata

\* the State of replica 1 had the call of truncate_log_before just made
\* not taken place
Untruncated == [state[1] EXCEPT !.log_op_list = call.before]

(***************************************************************************)
(* C25: after truncate_log_before(threshold), applying an op whose         *)
(* timestamp is greater than threshold yields the same tree as applying it *)
(* to an untruncated copy of the State, and the resulting log equals the   *)
(* log of the untruncated copy restricted to the entries whose timestamp   *)
(* is at or above threshold.                                               *)
(***************************************************************************)
C25_TruncationRefines ==
    [][\A op \in NewlyApplied(1) :
          (call.made /\ ~call.panicked /\ ClockGt(op.timestamp, call.threshold)) =>
              LET u == apply_op(Untruncated, op)
              IN  /\ state'[1].tree = u.tree
                  /\ state'[1].log_op_list = KeptBy(u.log_op_list, call.threshold)]_vars

\* the State of replica r is what the call of truncate_log_before described
\* by call has left
JustTruncated(r) ==
    /\ call.made
    /\ ~call.panicked
    /\ \E overflow_checks \in BOOLEAN :
           truncate_log_before([state[r] EXCEPT !.log_op_list = call.before],
                               call.threshold, overflow_checks).state = state[r]

(***************************************************************************)
(* C26: truncate_log_before is idempotent: a second call with the same     *)
(* threshold, right after the first, returns normally, removes nothing     *)
(* (the log is the one the first call left) and returns false.             *)
(***************************************************************************)
C26_TruncateIdempotent ==
    [][\A r \in Replicas :
          ( /\ JustTruncated(r)
            /\ call'.made
            /\ call'.threshold = call.threshold
            /\ call'.before = state[r].log_op_list
            /\ \A q \in Replicas \ {r} : state'[q] = state[q] ) =>
              /\ ~call'.panicked
              /\ state'[r].log_op_list = state[r].log_op_list
              /\ call'.ret = FALSE]_vars

(***************************************************************************)
(* C27: truncate_log_before with a threshold greater than the timestamp of *)
(* every entry of a log that is not empty completes normally (no panic),   *)
(* leaves the log empty and returns true.                                  *)
(***************************************************************************)
C27_TruncateAll ==
    ( /\ call.made
      /\ call.before # << >>
      /\ \A i \in 1 .. Len(call.before) :
             ClockLt(call.before[i].timestamp, call.threshold) ) =>
        /\ ~call.panicked
        /\ state[1].pos = "ready"
        /\ LogAfterCall = << >>
        /\ call.ret = TRUE

\* the op of the step that hands one more op to the State
Handed == handed'[Len(handed')]

\* the log of s holds an entry with the timestamp of op
InLog(s, op) ==
    \E i \in 1 .. Len(s.log_op_list) :
        ClockEq(s.log_op_list[i].timestamp, op.timestamp)

(***************************************************************************)
(* C28: apply_op of an op whose timestamp equals the timestamp of any      *)
(* entry of the log, the head or a deeper one, leaves the whole State as   *)
(* it was (tree, order of the log, every oldp), also when the op's parent, *)
(* metadata or child differ from the logged entry; in particular an op     *)
(* that is already in the log can be delivered again without effect.       *)
(***************************************************************************)
C28_DuplicateAnywhereDropped ==
    [][(handed' # handed /\ InLog(state[1], Handed)) =>
          /\ state'[1] = state[1]
          /\ StateEq(state'[1], state[1])
          /\ state'[1].pos = "ready"]_vars

\* the third op handed carries the timestamp of the first with another
\* body, and the second op, newer than both, sits above the first in the
\* log: the duplicate met an entry that is not the head
C28_Witness ==
    /\ Len(handed) = 3
    /\ ClockEq(handed[3].timestamp, handed[1].timestamp)
    /\ handed[3].metadata # handed[1].metadata
    /\ ClockGt(handed[2].timestamp, handed[1].timestamp)
    /\ state[1].pos = "ready"
    /\ Len(state[1].log_op_list) = 2
    /\ from_log_op_move(state[1].log_op_list[2]) = handed[1]
    /\ IsSome(state[1].log_op_list[1].oldp)

\* the first op handed with the timestamp t
FirstHanded(t) ==
    handed[CHOOSE i \in 1 .. Len(handed) :
               /\ ClockEq(handed[i].timestamp, t)
               /\ \A j \in 1 .. i - 1 : ~ClockEq(handed[j].timestamp, t)]

(***************************************************************************)
(* C29: after any sequence of apply_op calls, with no truncation, the log  *)
(* holds exactly one entry for each distinct timestamp applied, and that   *)
(* entry carries the parent, metadata and child of the first op applied    *)
(* with the timestamp; apply_op never drops an entry, and ops that do_op   *)
(* refused are in the log as well.                                         *)
(***************************************************************************)
C29_LogHoldsFirst ==
    LET log == state[1].log_op_list
    IN  /\ state[1].pos = "ready"
        /\ \A i \in 1 .. Len(handed) :
               Cardinality({ k \in 1 .. Len(log) :
                   ClockEq(log[k].timestamp, handed[i].timestamp) }) = 1
        /\ \A k \in 1 .. Len(log) :
               /\ \E i \in 1 .. Len(handed) :
                      ClockEq(handed[i].timestamp, log[k].timestamp)
               /\ from_log_op_move(log[k]) = FirstHanded(log[k].timestamp)

\* three ops handed: a self-move that do_op refuses, then an older op, then
\* an op with the timestamp of the second and another body; the log holds
\* the first two
C29_Witness ==
    /\ Len(handed) = 3
    /\ handed[1].child_id = handed[1].parent_id
    /\ ClockLt(handed[2].timestamp, handed[1].timestamp)
    /\ ClockEq(handed[3].timestamp, handed[2].timestamp)
    /\ handed[3] # handed[2]
    /\ LogOps(state[1]) = << handed[1], handed[2] >>

\* the State after the calls of a sequence made one after the other on s:
\* undo_op takes the head of the log, do_op logs what it returns, redo_op is
\* given the entry of log0 with the call's timestamp
RECURSIVE Replay(_, _, _, _)
Replay(s, calls, op, log0) ==
    IF Len(calls) = 0 THEN s
    ELSE LET c == Head(calls)
             next ==
                 IF c.call = "undo_op"
                 THEN undo_op([s EXCEPT !.log_op_list = Tail(@)], Head(s.log_op_list))
                 ELSE IF c.call = "do_op"
                 THEN LET r == do_op(s, op) IN add_log_entry(r.state, r.log)
                 ELSE redo_op(s, log0[CHOOSE i \in 1 .. Len(log0) :
                                          ClockEq(log0[i].timestamp, c.timestamp)])
         IN  Replay(next, Tail(calls), op, log0)

\* the number of entries of the log with a timestamp newer than the op's
NewerThan(log, op) ==
    Cardinality({ i \in 1 .. Len(log) : ClockGt(log[i].timestamp, op.timestamp) })

(***************************************************************************)
(* C30: apply_op of an op older than exactly k entries of the log (and     *)
(* with a timestamp the log does not hold) terminates after undoing        *)
(* exactly those k newer entries, newest first, doing the op, and redoing  *)
(* the k entries, oldest first; the entries older than the op are neither  *)
(* undone nor changed, and the log grows by exactly one entry.             *)
(***************************************************************************)
C30_UndoDoRedo ==
    [][(handed' # handed /\ ~InLog(state[1], Handed)) =>
          LET log == state[1].log_op_list
              after == state'[1].log_op_list
              k == NewerThan(log, Handed)
              calls == apply_op_calls(state[1], Handed)
          IN  /\ state'[1].pos = "ready"
              /\ calls = [i \in 1 .. 2 * k + 1 |->
                            IF i <= k
                            THEN [call |-> "undo_op", timestamp |-> log[i].timestamp]
                            ELSE IF i = k + 1
                            THEN [call |-> "do_op", timestamp |-> Handed.timestamp]
                            ELSE [call |-> "redo_op",
                                  timestamp |-> log[2 * k + 2 - i].timestamp]]
              /\ state'[1] = Replay(state[1], calls, Handed, log)
              /\ Len(after) = Len(log) + 1
              /\ SubSeq(after, k + 2, Len(after)) = SubSeq(log, k + 1, Len(log))
              /\ from_log_op_move(after[k + 1]) = Handed
              /\ \A i \in 1 .. k :
                     from_log_op_move(after[i]) = from_log_op_move(log[i])]_vars

\* the third op handed is older than the two entries of the log, so both
\* were undone and redone; the log holds the three ops, the third at the
\* bottom, and the newest entry moved a node that was already in the tree
C30_Witness ==
    /\ Len(handed) = 3
    /\ ClockLt(handed[3].timestamp, handed[1].timestamp)
    /\ ClockLt(handed[3].timestamp, handed[2].timestamp)
    /\ ClockLt(handed[1].timestamp, handed[2].timestamp)
    /\ state[1].pos = "ready"
    /\ LogOps(state[1]) = << handed[2], handed[1], handed[3] >>
    /\ IsSome(state[1].log_op_list[1].oldp)

(***************************************************************************)
(* C31: apply_op of an op whose timestamp is greater than the timestamp of *)
(* the log head changes at most the tree entry of op.child_id: every other *)
(* node keeps its parent and metadata, and all the entries the log held    *)
(* stay as they were, behind the new head entry.                           *)
(***************************************************************************)
C31_NewestOpFrame ==
    [][( /\ handed' # handed
         /\ Len(state[1].log_op_list) > 0
         /\ ClockGt(Handed.timestamp, state[1].log_op_list[1].timestamp) ) =>
           /\ \A n \in Nodes \ {Handed.child_id} :
                  find(state'[1].tree, n) = find(state[1].tree, n)
           /\ Len(state'[1].log_op_list) = Len(state[1].log_op_list) + 1
           /\ Tail(state'[1].log_op_list) = state[1].log_op_list
           /\ from_log_op_move(state'[1].log_op_list[1]) = Handed]_vars

\* three ops handed in ascending timestamp order; the last one moved a node
\* that was in the tree to another parent while another node stayed put
C31_Witness ==
    /\ Len(handed) = 3
    /\ ClockLt(handed[1].timestamp, handed[2].timestamp)
    /\ ClockLt(handed[2].timestamp, handed[3].timestamp)
    /\ LogOps(state[1]) = << handed[3], handed[2], handed[1] >>
    /\ IsSome(state[1].log_op_list[1].oldp)
    /\ Unwrap(state[1].log_op_list[1].oldp).parent_id # handed[3].parent_id
    /\ find(state[1].tree, handed[3].child_id) =
           Some(TreeNode_new(handed[3].parent_id, handed[3].metadata))
    /\ Cardinality(DOMAIN state[1].tree.triples) >= 2

LastSeen(r) ==
    { CHOOSE t \in AppliedFrom(r, a) : \A u \in AppliedFrom(r, a) : ~ClockGt(u, t) :
          a \in { b \in Actors : AppliedFrom(r, b) # {} } }

(***************************************************************************)
(* C33: causally_stable_threshold returns the minimum, in clock order, of  *)
(* the last-seen timestamps of all the actors the replica has applied ops  *)
(* from, and None when the replica has applied no op; in that case         *)
(* Replica::truncate_log returns false and leaves the State unchanged.     *)
(***************************************************************************)
C33_ThresholdIsMinLastSeen ==
    \A r \in Replicas : \A overflow_checks \in BOOLEAN :
        LET res == truncate_log(latest[r], state[r], overflow_checks)
        IN  IF applied[r] = {}
            THEN /\ causally_stable_threshold(latest[r]) = None
                 /\ res.ret = FALSE
                 /\ res.state = state[r]
                 /\ state[r] = State_new
            ELSE /\ IsSome(causally_stable_threshold(latest[r]))
                 /\ Unwrap(causally_stable_threshold(latest[r])) \in LastSeen(r)
                 /\ \A t \in LastSeen(r) :
                        ~ClockLt(t, Unwrap(causally_stable_threshold(latest[r])))

\* one replica has applied ops of both actors, two of them from the actor
\* whose last-seen timestamp is the smaller one, and the other replica has
\* applied nothing
C33_Witness ==
    \E r \in Replicas, q \in Replicas :
        /\ applied[q] = {}
        /\ Cardinality(applied[r]) = 3
        /\ Cardinality(LastSeen(r)) = 2
        /\ \E a \in Actors :
               /\ Cardinality(AppliedFrom(r, a)) = 2
               /\ causally_stable_threshold(latest[r]) = Some(latest[r][a])
        /\ state[r].pos = "ready"

\* the nodes reached from node n by one to k parent steps
RECURSIVE ParentSteps(_, _, _)
ParentSteps(tree, n, k) ==
    IF k = 0 \/ n \notin DOMAIN tree.triples THEN {}
    ELSE {tree.triples[n].parent_id}
             \cup ParentSteps(tree, tree.triples[n].parent_id, k - 1)

(***************************************************************************)
(* C34: on every tree of a State reachable by apply_op, is_ancestor(child, *)
(* candidate) terminates, and it returns true if and only if candidate is  *)
(* reached from child by one or more parent steps; it returns false when   *)
(* child has no entry in the tree.                                         *)
(***************************************************************************)
C34_IsAncestorCorrect ==
    LET tree == state[1].tree
    IN  \A child \in Nodes, candidate \in Nodes :
            /\ is_ancestor(tree, child, candidate) \in {"true", "false"}
            /\ is_ancestor(tree, child, candidate) = "true" <=>
                   candidate \in ParentSteps(tree, child, Cardinality(DOMAIN tree.triples))
            /\ child \notin DOMAIN tree.triples =>
                   is_ancestor(tree, child, candidate) = "false"

\* a tree with a chain of two parent steps, built with an op applied out of
\* order: the top of the chain is an ancestor of the bottom without being its
\* parent, and the top itself has no entry
C34_Witness ==
    /\ ooo[1]
    /\ \E n \in Nodes, m \in Nodes, top \in Nodes :
           /\ find(state[1].tree, n) # None
           /\ Unwrap(find(state[1].tree, n)).parent_id = m
           /\ find(state[1].tree, m) # None
           /\ Unwrap(find(state[1].tree, m)).parent_id = top
           /\ top # m
           /\ find(state[1].tree, top) = None
           /\ is_ancestor(state[1].tree, n, top) = "true"
           /\ is_ancestor(state[1].tree, top, n) = "false"

(***************************************************************************)
(* C35: check_log_is_descending returns normally on every State whose log  *)
(* is empty or strictly descending, a fresh State and a State with a       *)
(* single log entry included, and panics only when two adjacent entries    *)
(* are not in strictly descending timestamp order.                         *)
(***************************************************************************)
C35_CheckLogReturns ==
    \A overflow_checks \in BOOLEAN :
        check_log_is_descending(state[1], overflow_checks) = "panics" <=>
            \E i \in 1 .. Len(state[1].log_op_list) - 1 :
                ~ClockGt(state[1].log_op_list[i].timestamp,
                         state[1].log_op_list[i + 1].timestamp)

(***************************************************************************)
(* C36: rm_child(c) on a tree where c is absent changes nothing; when c is *)
(* present it removes only c's own entry (the children of c keep their     *)
(* entries, with parent c), removes c from the child set of its parent,    *)
(* and deletes that child set from the index when it becomes empty.        *)
(***************************************************************************)
C36_RmChildFrame ==
    LET tree == state[1].tree
    IN  \A c \in Nodes :
            LET after == rm_child(tree, c)
            IN  IF c \notin DOMAIN tree.triples
                THEN after = tree
                ELSE LET p == tree.triples[c].parent_id
                     IN  /\ DOMAIN after.triples = DOMAIN tree.triples \ {c}
                         /\ \A n \in DOMAIN after.triples :
                                after.triples[n] = tree.triples[n]
                         /\ \A q \in DOMAIN tree.children \ {p} :
                                /\ q \in DOMAIN after.children
                                /\ after.children[q] = tree.children[q]
                         /\ DOMAIN after.children \subseteq DOMAIN tree.children
                         /\ IF tree.children[p] \ {c} = {}
                            THEN p \notin DOMAIN after.children
                            ELSE /\ p \in DOMAIN after.children
                                 /\ after.children[p] = tree.children[p] \ {c}

\* a tree where one node is the only child of its parent and has a child of
\* its own, another parent has two children, and a node is absent
C36_Witness ==
    LET tree == state[1].tree
    IN  /\ \E c \in DOMAIN tree.triples, d \in DOMAIN tree.triples :
               /\ tree.triples[d].parent_id = c
               /\ tree.children[tree.triples[c].parent_id] = {c}
               /\ d \in tree.children[c]
        /\ \E p \in DOMAIN tree.children : Cardinality(tree.children[p]) >= 2
        /\ \E n \in Nodes : n \notin DOMAIN tree.triples

\* the nodes of the tree that have p among their ancestors
Descendants(tree, p) ==
    { n \in DOMAIN tree.triples :
          p \in ParentSteps(tree, n, Cardinality(DOMAIN tree.triples)) }

(***************************************************************************)
(* C37: rm_subtree(p, include_parent) on an acyclic tree with a consistent *)
(* children index terminates, removes every descendant of p, removes p's   *)
(* own entry exactly when include_parent is true, and leaves every node    *)
(* outside the subtree of p with its parent and metadata unchanged, in     *)
(* whatever order the children are visited.                                *)
(***************************************************************************)
C37_RmSubtree ==
    LET tree == state[1].tree
    IN  Consistent(tree) =>
            \A p \in Nodes, include_parent \in BOOLEAN :
                LET gone == Descendants(tree, p)
                                \cup (IF include_parent THEN {p} ELSE {})
                    outcomes == rm_subtree(tree, p, include_parent)
                IN  /\ outcomes # {}
                    /\ \A after \in outcomes :
                           /\ DOMAIN after.triples = DOMAIN tree.triples \ gone
                           /\ \A n \in DOMAIN after.triples :
                                  after.triples[n] = tree.triples[n]

\* an acyclic, consistent tree with a chain of two levels under a parent:
\* rm_subtree of the top descends twice and removes both nodes, rm_subtree
\* of the middle node without include_parent removes the bottom node and
\* leaves the middle node's entry
C37_Witness ==
    LET tree == state[1].tree
    IN  /\ Consistent(tree)
        /\ \E n \in DOMAIN tree.triples, m \in DOMAIN tree.triples :
               /\ tree.triples[n].parent_id = m
               /\ Descendants(tree, m) = {n}
               /\ Descendants(tree, tree.triples[m].parent_id) = {m, n}
               /\ \A after \in rm_subtree(tree, m, FALSE) :
                      DOMAIN after.triples = {m}
               /\ \A after \in rm_subtree(tree, tree.triples[m].parent_id, TRUE) :
                      DOMAIN after.triples = {}

(***************************************************************************)
(* C38: for every clock, inc() and tick() return a clock that is strictly  *)
(* greater than the clock before the call, also when the counter is at the *)
(* maximum of its unsigned 64-bit range: the counter does not wrap to a    *)
(* smaller one and the call raises no overflow error.                      *)
(***************************************************************************)
C38_IncTickGreater ==
    clk.op \in {"inc", "tick"} =>
        /\ clk.pos = "ready"
        /\ ClockGt(clk.ret, clk.before)

\* the children index that a child-to-node map determines: for every node
\* that is the parent of an entry, the set of its children
IndexOf(triples) ==
    [p \in { triples[c].parent_id : c \in DOMAIN triples } |->
        { c \in DOMAIN triples : triples[c].parent_id = p }]

(***************************************************************************)
(* C39: in every State reachable by apply_op the children index holds no   *)
(* empty child set; the index is the one the child-to-node map determines, *)
(* so two reachable States whose child-to-node maps are equal also have    *)
(* equal children indexes, and their trees compare equal.                  *)
(***************************************************************************)
C39_NoEmptyChildSet ==
    /\ \A r \in Replicas :
           /\ \A p \in DOMAIN state[r].tree.children : state[r].tree.children[p] # {}
           /\ state[r].tree.children = IndexOf(state[r].tree.triples)
    /\ state[1].tree.triples = state[2].tree.triples =>
           /\ state[1].tree.children = state[2].tree.children
           /\ state[1].tree = state[2].tree

\* the newest op moved a node away from a parent that has no other child
\* left, so that parent's child set has been deleted, and an older op came
\* after it and made the move be undone and redone
C39_Witness ==
    /\ Len(handed) = 3
    /\ ooo[1]
    /\ LET head == state[1].log_op_list[1]
       IN  /\ IsSome(head.oldp)
           /\ Unwrap(head.oldp).parent_id # head.parent_id
           /\ Unwrap(head.oldp).parent_id \notin DOMAIN state[1].tree.children
           /\ find(state[1].tree, head.child_id) =
                  Some(TreeNode_new(head.parent_id, head.metadata))
    /\ ClockLt(handed[3].timestamp, state[1].log_op_list[1].timestamp)

=============================================================================
